---- MODULE Spec2Model ----
(***************************************************************************)
(* A model of zip-rs: the byte-level parser (src/parse.rs), the archive    *)
(* facade and the size-limited retrieval of entries (src/lib.rs).          *)
(*                                                                         *)
(* The buffer is a sequence of bytes.  The cursor and every index of the   *)
(* source are 0-based; Sequences are 1-based, so buffer[i] of the source   *)
(* is buf[i + 1] here.  usize is 64 bits wide (lib.rs:174 evaluates        *)
(* 8 * GB = 2^33 in usize, which only builds on a 64-bit target), so no    *)
(* cursor addition of a 32-bit or 16-bit length wraps.                     *)
(***************************************************************************)
EXTENDS Integers, Sequences, FiniteSets, TLC

VARIABLES
    buffer,             \* Parser::buffer, immutable after construction
    cursor,             \* Parser::cursor
    opened,             \* "new", "ok" (ZipArchive built) or "err" (from_buffer failed)
    open_err,           \* the error from_buffer returned, when opened = "err"
    central_directory,  \* ZipArchive::central_directory: [files, end]
    files_iter,         \* the cloned Vec the iterator of files() still holds
    reads,              \* the items the iterator of files() has yielded so far,
                        \* each with the header it was read for and the cursor
                        \* it was read from
    previous,           \* the items the iterator before this one had yielded
    pc,                 \* "walk" inside the loop of
                        \* read_central_directory_file_headers, else "idle"
    walk_headers,       \* the Vec headers of that loop
    file,               \* the last item yielded by the iterator
    w,                  \* the caller's sink: [data, cap]
    decoder_calls,      \* number of DeflateDecoder::new calls (probe)
    ret,                \* the last retrieval call: operation, limit and result
    calls,              \* number of retrieval calls made
    panicked            \* a retrieval call hit todo!() and unwound

vars == <<buffer, cursor, opened, open_err, central_directory, files_iter,
          reads, previous, pc, walk_headers, file, w, decoder_calls, ret, calls,
          panicked>>

(***************************************************************************)
(* Bounds of the model.                                                    *)
(***************************************************************************)
MaxEntries == 2
MaxCalls == 1
MaxRange == 3

(***************************************************************************)
(* src/common.rs                                                           *)
(***************************************************************************)
LOCAL_FILE_SIGNATURE == <<80, 75, 3, 4>>
CENTRAL_DIRECTORY_FILE_SIGNATURE == <<80, 75, 1, 2>>
DATA_DESCRIPTOR_SIGNATURE == <<8, 7, 75, 80>>
END_CENTRAL_DIRECTORY_SIGNATURE == <<80, 75, 5, 6>>

DATA_DESCRIPTOR == 8

has_data_descriptor(flags) == (flags \div DATA_DESCRIPTOR) % 2 /= 0

\* CompressionMethodName::from_u16
CompressionMethodName_from_u16(n) ==
    CASE n = 0 -> "None"
      [] n = 1 -> "Shrink"
      [] n = 2 -> "Factor1"
      [] n = 3 -> "Factor2"
      [] n = 4 -> "Factor3"
      [] n = 5 -> "Factor4"
      [] n = 6 -> "Implode"
      [] n \in {7, 11, 13, 15, 16, 17} -> "Reserved"
      [] n = 8 -> "Deflate"
      [] n = 9 -> "EnhancedDeflate"
      [] n = 10 -> "PKWareDclImplode"
      [] n = 12 -> "Bzip2"
      [] n = 14 -> "Lzma"
      [] n = 18 -> "IbmTerse"
      [] n = 19 -> "IbmLZ77z"
      [] n = 98 -> "PPMd"
      [] OTHER -> "Unknown"

(***************************************************************************)
(* Integer conversions of the standard library, as the code uses them.     *)
(***************************************************************************)
u16_from_le_bytes(b) == b[1] + 256 * b[2]
u32_from_le_bytes(b) == b[1] + 256 * b[2] + 65536 * b[3] + 16777216 * b[4]
u32_to_be_bytes(n) ==
    <<(n \div 16777216) % 256, (n \div 65536) % 256, (n \div 256) % 256, n % 256>>

(***************************************************************************)
(* src/error.rs: the values of ZipParseError.                              *)
(***************************************************************************)
FileTooLarge(n) == [kind |-> "FileTooLarge", size |-> n]
IoError == [kind |-> "IoError"]
MalformedSignature(f, e) == [kind |-> "MalformedSignature", found |-> f, expected |-> e]
Generic(m) == [kind |-> "Generic", msg |-> m]
UnexpectedEof == [kind |-> "UnexpectedEof"]
MissingCentralDirectory == [kind |-> "MissingCentralDirectory"]
ZipParseErrorKinds ==
    {"FileTooLarge", "IoError", "MalformedSignature", "Generic", "UnexpectedEof",
     "MissingCentralDirectory"}

\* Not a value of ZipParseError: an out-of-bounds index unwinds the thread.
Panic == [kind |-> "Panic"]

\* Result<T, ZipParseError> of a parser method, paired with the cursor the
\* method leaves behind.
Ok(v, c) == [ok |-> TRUE, val |-> v, cursor |-> c]
Err(e, c) == [ok |-> FALSE, err |-> e, cursor |-> c]

(***************************************************************************)
(* src/parse.rs: the cursor primitives.                                    *)
(***************************************************************************)
\* The ? operator: an Err is returned as it is, an Ok is handed on.
Try(r, Then(_)) == IF r.ok THEN Then(r) ELSE r

read_byte(buf, cur) ==
    IF cur < Len(buf) THEN Ok(buf[cur + 1], cur + 1) ELSE Err(UnexpectedEof, cur)

read_u16(buf, cur) ==
    Try(read_byte(buf, cur), LAMBDA b1 :
    Try(read_byte(buf, b1.cursor), LAMBDA b2 :
    Ok(u16_from_le_bytes(<<b1.val, b2.val>>), b2.cursor)))

read_u32(buf, cur) ==
    Try(read_byte(buf, cur), LAMBDA b1 :
    Try(read_byte(buf, b1.cursor), LAMBDA b2 :
    Try(read_byte(buf, b2.cursor), LAMBDA b3 :
    Try(read_byte(buf, b3.cursor), LAMBDA b4 :
    Ok(u32_from_le_bytes(<<b1.val, b2.val, b3.val, b4.val>>), b4.cursor)))))

\* skip_u32 reads four bytes with _read_byte and stops at the first missing one.
skip_u32(buf, cur) ==
    IF cur + 4 <= Len(buf) THEN cur + 4
    ELSE IF cur < Len(buf) THEN Len(buf) ELSE cur

\* buffer[i]: the byte, or a panic of the thread when i is out of bounds.
index(buf, i) ==
    IF i < Len(buf) THEN Ok(buf[i + 1], i) ELSE Err(Panic, i)

\* The four indexed reads b1..b4 of read_signature and expect_signature.
index_signature(buf, cur) ==
    Try(index(buf, cur), LAMBDA b1 :
    Try(index(buf, cur + 1), LAMBDA b2 :
    Try(index(buf, cur + 2), LAMBDA b3 :
    Try(index(buf, cur + 3), LAMBDA b4 :
    Ok(<<b1.val, b2.val, b3.val, b4.val>>, cur)))))

\* read_signature that advances past the four bytes whether they match or not.
read_signature_consuming(buf, cur, signature) ==
    IF Len(buf) <= cur + 3 THEN Ok(FALSE, cur)
    ELSE Try(index_signature(buf, cur), LAMBDA found :
         Ok(found.val = signature, skip_u32(buf, cur)))

\* The value is the bool read_signature returns.
read_signature(buf, cur, signature) ==
    IF Len(buf) <= cur + 3 THEN Ok(FALSE, cur)
    ELSE Try(index_signature(buf, cur), LAMBDA found :
         IF found.val = signature
         THEN Ok(TRUE, skip_u32(buf, cur))
         ELSE Ok(FALSE, cur))

\* expect_signature with the length test off by one: four bytes left at the
\* cursor count as too few.
expect_signature_needs_five(buf, cur, expected) ==
    IF Len(buf) <= cur + 4 THEN Err(Generic("expected 4 byte signature"), cur)
    ELSE IF <<buf[cur + 1], buf[cur + 2], buf[cur + 3], buf[cur + 4]>> = expected
         THEN Ok(<<>>, skip_u32(buf, cur))
         ELSE Err(MalformedSignature(
                      <<buf[cur + 1], buf[cur + 2], buf[cur + 3], buf[cur + 4]>>,
                      expected), cur)

\* expect_signature with < where the code has <=: three bytes left at the
\* cursor pass the length test.
expect_signature_less(buf, cur, expected) ==
    IF Len(buf) < cur + 3 THEN Err(Generic("expected 4 byte signature"), cur)
    ELSE Try(index_signature(buf, cur), LAMBDA found :
         IF found.val = expected
         THEN Ok(<<>>, skip_u32(buf, cur))
         ELSE Err(MalformedSignature(found.val, expected), cur))

expect_signature(buf, cur, expected) ==
    IF Len(buf) <= cur + 3 THEN Err(Generic("expected 4 byte signature"), cur)
    ELSE Try(index_signature(buf, cur), LAMBDA found :
         IF found.val = expected
         THEN Ok(<<>>, skip_u32(buf, cur))
         ELSE Err(MalformedSignature(found.val, expected), cur))

\* get_byte_range that returns what the buffer holds of the range when the
\* range runs past its end.
get_byte_range_clamped(buf, cur, len) ==
    IF cur + len <= Len(buf)
    THEN Ok(SubSeq(buf, cur + 1, cur + len), cur + len)
    ELSE Ok(SubSeq(buf, cur + 1, Len(buf)), cur + len)

\* get_byte_range that returns the range and forgets to advance the cursor.
get_byte_range_no_advance(buf, cur, len) ==
    IF cur + len <= Len(buf)
    THEN Ok(SubSeq(buf, cur + 1, cur + len), cur)
    ELSE Err(UnexpectedEof, cur)

\* The cursor is advanced before the range is looked up, so it moves also
\* when the range is refused: start = cur, self.cursor = cur + len.
get_byte_range(buf, cur, len) ==
    IF cur + len <= Len(buf)
    THEN Ok(SubSeq(buf, cur + 1, cur + len), cur + len)
    ELSE Err(UnexpectedEof, cur + len)

\* One fixed-width little-endian read.
read_uint(buf, cur, width) ==
    CASE width = 1 -> read_byte(buf, cur)
      [] width = 2 -> read_u16(buf, cur)
      [] width = 4 -> read_u32(buf, cur)

\* A run of fixed-width reads chained with `?`: the values read, or the
\* error of the first read that fails.
RECURSIVE read_fields(_, _, _, _)
read_fields(buf, cur, widths, acc) ==
    IF widths = <<>> THEN Ok(acc, cur)
    ELSE Try(read_uint(buf, cur, Head(widths)), LAMBDA r :
         read_fields(buf, r.cursor, Tail(widths), Append(acc, r.val)))

(***************************************************************************)
(* src/parse.rs: the record decoders.                                      *)
(***************************************************************************)
\* The trailing data descriptor of read_metadata (parse.rs:129-139), read at
\* the cursor: <<crc, compressed_size, uncompressed_size>>.
read_data_descriptor(buf, cur) ==
    Try(read_u32(buf, cur), LAMBDA optional_signature :
    Try(IF u32_to_be_bytes(optional_signature.val) = DATA_DESCRIPTOR_SIGNATURE
        THEN read_u32(buf, optional_signature.cursor)
        ELSE optional_signature, LAMBDA crc :
    Try(read_fields(buf, crc.cursor, <<4, 4>>, <<>>), LAMBDA sizes :
    Ok(<<crc.val, sizes.val[1], sizes.val[2]>>, sizes.cursor))))

\* f holds version_needed, flags, compression_method, last_mod_date_time,
\* crc, compressed_size, uncompressed_size, file_name_len, extra_field_len.
read_metadata(buf, cur) ==
    Try(read_fields(buf, cur, <<2, 2, 2, 4, 4, 4, 4, 2, 2>>, <<>>), LAMBDA f :
    Try(get_byte_range(buf, f.cursor, f.val[8]), LAMBDA file_name :
    Try(get_byte_range(buf, file_name.cursor, f.val[9]), LAMBDA extra_field :
    Try(IF has_data_descriptor(f.val[2])
        THEN read_data_descriptor(buf, extra_field.cursor)
        ELSE Ok(<<f.val[5], f.val[6], f.val[7]>>, extra_field.cursor), LAMBDA d :
    Ok([version_needed |-> f.val[1],
        compression_method |-> f.val[3],
        date_time_modified |-> f.val[4],
        flags |-> f.val[2],
        name |-> file_name.val,
        extra_field |-> extra_field.val,
        crc |-> d.val[1],
        compressed_size |-> d.val[2],
        uncompressed_size |-> d.val[3]], d.cursor)))))

\* One iteration of the loop body of read_central_directory_file_headers,
\* entered after the signature matched (parse.rs:163-205).  f holds os,
\* zip_specification_version, version_needed, bit_flags, compression_method,
\* date_time_modified, crc, compressed_size, uncompressed_size,
\* file_name_len, extra_field_len, comment_len, disk_num_start,
\* internal_attributes, external_attributes, local_header_offset.
read_central_directory_file_header(buf, cur) ==
    Try(read_fields(buf, cur, <<1, 1, 2, 2, 2, 4, 4, 4, 4, 2, 2, 2, 2, 2, 4, 4>>, <<>>),
        LAMBDA f :
    Try(get_byte_range(buf, f.cursor, f.val[10]), LAMBDA file_name :
    Try(get_byte_range(buf, file_name.cursor, f.val[11]), LAMBDA extra_field :
    Try(get_byte_range(buf, extra_field.cursor, f.val[12]), LAMBDA comment :
    Ok([os |-> f.val[1],
        metadata |-> [version_needed |-> f.val[3],
                      compression_method |-> f.val[5],
                      date_time_modified |-> f.val[6],
                      flags |-> f.val[4],
                      name |-> file_name.val,
                      extra_field |-> extra_field.val,
                      crc |-> f.val[7],
                      compressed_size |-> f.val[8],
                      uncompressed_size |-> f.val[9]],
        internal_attributes |-> f.val[14],
        external_attributes |-> f.val[15],
        disk_num_start |-> f.val[13],
        zip_specification_version |-> f.val[2],
        local_header_offset |-> f.val[16],
        comment |-> comment.val], comment.cursor)))))

\* The while loop of read_central_directory_file_headers; s is the outcome
\* of read_signature at the head of the loop.
RECURSIVE read_headers_loop(_, _, _)
read_headers_loop(buf, s, headers) ==
    IF ~s.ok THEN s
    ELSE IF ~s.val THEN Ok(headers, s.cursor)
    ELSE Try(read_central_directory_file_header(buf, s.cursor), LAMBDA h :
         read_headers_loop(buf,
             read_signature(buf, h.cursor, CENTRAL_DIRECTORY_FILE_SIGNATURE),
             Append(headers, h.val)))

read_central_directory_file_headers(buf, offset) ==
    read_headers_loop(buf, read_signature(buf, offset, CENTRAL_DIRECTORY_FILE_SIGNATURE),
                      <<>>)

\* f holds disk_num, disk_central_dir_num, disk_entires, total_entires,
\* central_dir_size, central_dir_offset, comment_len; the comment is skipped
\* by moving the cursor.
read_end_central_directory(buf, offset) ==
    Try(expect_signature(buf, offset, END_CENTRAL_DIRECTORY_SIGNATURE), LAMBDA s :
    Try(read_fields(buf, s.cursor, <<2, 2, 2, 2, 4, 4, 2>>, <<>>), LAMBDA f :
    Ok([disk_num |-> f.val[1],
        disk_central_dir_num |-> f.val[2],
        disk_entires |-> f.val[3],
        total_entires |-> f.val[4],
        central_dir_size |-> f.val[5],
        central_dir_offset |-> f.val[6]], f.cursor + f.val[7])))

\* The offsets at which needle occurs in buf.
Occurrences(buf, needle) ==
    {p \in 0..(Len(buf) - Len(needle)) : SubSeq(buf, p + 1, p + Len(needle)) = needle}

RECURSIVE Descending(_)
Descending(S) ==
    IF S = {} THEN <<>>
    ELSE <<CHOOSE x \in S : \A y \in S : y <= x>>
         \o Descending(S \ {CHOOSE x \in S : \A y \in S : y <= x})

\* memmem::rfind_iter: the occurrences, greatest offset first.
rfind_iter(buf, needle) == Descending(Occurrences(buf, needle))

\* The body of the for loop over offsets, for the offset it is entered with:
\* it returns the directory or the error of either reader.
directory_at(buf, offset) ==
    Try(read_end_central_directory(buf, offset), LAMBDA end :
    Try(read_central_directory_file_headers(buf, end.val.central_dir_offset),
        LAMBDA file_headers :
    Ok([files |-> file_headers.val, end |-> end.val], file_headers.cursor)))

\* The for loop ending in UnexpectedEof when the iterator yields nothing.
first_offset_eof(buf, cur, offsets) ==
    IF offsets = <<>> THEN Err(UnexpectedEof, cur)
    ELSE directory_at(buf, Head(offsets))

\* The for loop, entered with the offsets the iterator yields.
first_offset(buf, cur, offsets) ==
    IF offsets = <<>> THEN Err(MissingCentralDirectory, cur)
    ELSE directory_at(buf, Head(offsets))

\* The loop taking the occurrence of least offset.
last_offset(buf, cur, offsets) ==
    IF offsets = <<>> THEN Err(MissingCentralDirectory, cur)
    ELSE directory_at(buf, offsets[Len(offsets)])

\* parse_central_directory searching forwards (find_iter for rfind_iter): the
\* occurrence with the least offset is taken.
parse_central_directory_forwards(buf, cur) ==
    last_offset(buf, cur, rfind_iter(buf, END_CENTRAL_DIRECTORY_SIGNATURE))

parse_central_directory(buf, cur) ==
    first_offset(buf, cur, rfind_iter(buf, END_CENTRAL_DIRECTORY_SIGNATURE))

\* read_file seeking by the offset from where the cursor was left
\* (cursor += offset where the code has cursor = offset).
read_file_relative(buf, cur, central_directory_header) ==
    Try(expect_signature(buf, cur + central_directory_header.local_header_offset,
                         LOCAL_FILE_SIGNATURE), LAMBDA s :
    Try(read_metadata(buf, s.cursor), LAMBDA metadata :
    Try(get_byte_range(buf, metadata.cursor, metadata.val.compressed_size),
        LAMBDA contents :
    Ok([metadata |-> metadata.val, contents |-> contents.val], contents.cursor))))

\* read_file slicing uncompressed_size bytes where the code slices
\* compressed_size bytes.
read_file_uncompressed(buf, cur, central_directory_header) ==
    Try(expect_signature(buf, central_directory_header.local_header_offset,
                         LOCAL_FILE_SIGNATURE), LAMBDA s :
    Try(read_metadata(buf, s.cursor), LAMBDA metadata :
    Try(get_byte_range(buf, metadata.cursor, metadata.val.uncompressed_size),
        LAMBDA contents :
    Ok([metadata |-> metadata.val, contents |-> contents.val], contents.cursor))))

\* cur is the cursor the call finds; the first statement overwrites it with
\* the header's local_header_offset.
read_file(buf, cur, central_directory_header) ==
    Try(expect_signature(buf, central_directory_header.local_header_offset,
                         LOCAL_FILE_SIGNATURE), LAMBDA s :
    Try(read_metadata(buf, s.cursor), LAMBDA metadata :
    Try(get_byte_range(buf, metadata.cursor, metadata.val.compressed_size),
        LAMBDA contents :
    Ok([metadata |-> metadata.val, contents |-> contents.val], contents.cursor))))

(***************************************************************************)
(* src/lib.rs: retrieval of one entry (CompressedZipFile).                 *)
(***************************************************************************)
KB == 1024
MB == 1024 * KB
GB == 1024 * MB

\* Option<usize> and the order #[derive(PartialOrd)] gives it: None is less
\* than every Some.
None == [some |-> FALSE, v |-> 0]
Some(n) == [some |-> TRUE, v |-> n]
option_ge(a, b) ==
    IF a.some THEN (~b.some \/ a.v >= b.v) ELSE ~b.some

\* The deflate decoder is an external collaborator: one function from the
\* compressed bytes to the bytes it yields and whether the stream then ends
\* in an error.  The stand-in reads <<count, byte>> pairs and yields count
\* copies of byte for each; a trailing odd byte is a corrupt stream.
RECURSIVE Repeat(_, _)
Repeat(n, b) == IF n = 0 THEN <<>> ELSE <<b>> \o Repeat(n - 1, b)

RECURSIVE DeflateDecoder(_)
DeflateDecoder(contents) ==
    IF contents = <<>> THEN [out |-> <<>>, err |-> FALSE]
    ELSE IF Len(contents) = 1 THEN [out |-> <<>>, err |-> TRUE]
    ELSE LET rest == DeflateDecoder(SubSeq(contents, 3, Len(contents)))
         IN  [out |-> Repeat(contents[1], contents[2]) \o rest.out, err |-> rest.err]

\* Write::write_all on the caller's sink; the sink holds at most cap bytes
\* and fails once it is full, keeping what it accepted before.
write_all(sink, bytes) ==
    IF Len(sink.data) + Len(bytes) <= sink.cap
    THEN [ok |-> TRUE, w |-> [sink EXCEPT !.data = sink.data \o bytes]]
    ELSE [ok |-> FALSE,
          w |-> [sink EXCEPT !.data = sink.data \o SubSeq(bytes, 1, sink.cap - Len(sink.data))]]

\* std::io::copy(&mut decoder, w): everything the decoder yields goes to the
\* sink; a decoder or sink failure is an io error, else the byte count.
io_copy(contents, sink) ==
    LET d == DeflateDecoder(contents)
        wr == write_all(sink, d.out)
    IN  [ok |-> wr.ok /\ ~d.err, amt |-> Len(d.out), w |-> wr.w]

\* Read::read_exact(&mut out) on a decoder: an empty out is filled without a
\* read; otherwise the first Len(out) bytes, or an io error when the decoder
\* yields fewer.
read_exact(contents, n) ==
    LET d == DeflateDecoder(contents) IN
    IF n = 0 THEN [ok |-> TRUE, out |-> <<>>]
    ELSE IF Len(d.out) >= n THEN [ok |-> TRUE, out |-> SubSeq(d.out, 1, n)]
    ELSE [ok |-> FALSE, out |-> <<>>]

\* The outcome of a retrieval call: what it returned (or that it panicked),
\* the sink afterwards and the number of decoders it built.
Returned(r, sink, n) == [outcome |-> IF r.ok THEN "Ok" ELSE "Err", result |-> r, w |-> sink, decoders |-> n]
Panicked(sink) == [outcome |-> "Panic", result |-> [ok |-> FALSE, err |-> [kind |-> "todo"]],
                   w |-> sink, decoders |-> 0]
RetOk(v) == [ok |-> TRUE, val |-> v]
RetErr(e) == [ok |-> FALSE, err |-> e]

\* write_with_limit after the size check (lib.rs:145-165); too_large is the
\* value of the comparison of line 145.
write_checked(view, sink, too_large) ==
    IF too_large
    THEN Returned(RetErr(FileTooLarge(view.metadata.uncompressed_size)), sink, 0)
    ELSE LET method == CompressionMethodName_from_u16(view.metadata.compression_method) IN
         CASE method = "None" ->
                LET wr == write_all(sink, view.contents) IN
                IF wr.ok THEN Returned(RetOk(<<>>), wr.w, 0)
                ELSE Returned(RetErr(IoError), wr.w, 0)
           [] method = "Deflate" ->
                LET c == io_copy(view.contents, sink) IN
                IF ~c.ok THEN Returned(RetErr(IoError), c.w, 1)
                ELSE IF c.amt /= view.metadata.uncompressed_size
                     THEN Returned(RetErr(Generic("failed to write full buffer")), c.w, 1)
                     ELSE Returned(RetOk(<<>>), c.w, 1)
           [] OTHER -> Panicked(sink)

\* write_with_limit comparing with > where the code has >=.
write_with_limit_greater(view, sink, limit) ==
    write_checked(view, sink,
                  ~limit.some \/ view.metadata.uncompressed_size > limit.v)

write_with_limit(view, sink, limit) ==
    write_checked(view, sink, option_ge(Some(view.metadata.uncompressed_size), limit))

\* write: the limit is Some(8 * GB) = 2^33.  size >= 8 * GB is evaluated as
\* size \div 8 >= GB, which is the same comparison without the product.
write(view, sink) ==
    write_checked(view, sink, (view.metadata.uncompressed_size \div 8) >= GB)

\* decompressed_contents_with_limit after the size check (lib.rs:186-200).
decompressed_checked(view, sink, too_large) ==
    IF too_large
    THEN Returned(RetErr(FileTooLarge(view.metadata.uncompressed_size)), sink, 0)
    ELSE LET method == CompressionMethodName_from_u16(view.metadata.compression_method) IN
         CASE method = "None" -> Returned(RetOk(view.contents), sink, 0)
           [] method = "Deflate" ->
                LET r == read_exact(view.contents, view.metadata.uncompressed_size) IN
                IF r.ok THEN Returned(RetOk(r.out), sink, 1)
                ELSE Returned(RetErr(IoError), sink, 1)
           [] OTHER -> Panicked(sink)

decompressed_contents_with_limit(view, sink, limit) ==
    decompressed_checked(view, sink, option_ge(Some(view.metadata.uncompressed_size), limit))

decompressed_contents(view, sink) ==
    decompressed_checked(view, sink, (view.metadata.uncompressed_size \div 8) >= GB)

(***************************************************************************)
(* The buffers the archive is opened on: archives laid out as the readers  *)
(* of src/parse.rs expect them (local records, central directory, end      *)
(* record), and damaged variants of them.                                  *)
(***************************************************************************)
LE16(n) == <<n % 256, (n \div 256) % 256>>
LE32(n) == <<n % 256, (n \div 256) % 256, (n \div 65536) % 256, (n \div 16777216) % 256>>

RECURSIVE Concat(_)
Concat(ss) == IF ss = <<>> THEN <<>> ELSE Head(ss) \o Concat(Tail(ss))

\* An entry to archive: local is <<crc, compressed-size, uncompressed-size>>
\* as written in the local header, central the same fields of the directory
\* entry, desc the bytes of the data descriptor written after the data.
Entry(method, flags, name, extra, data, local, desc, central, comment) ==
    [method |-> method, flags |-> flags, name |-> name, extra |-> extra,
     data |-> data, local |-> local, desc |-> desc, central |-> central,
     comment |-> comment]

Descriptor(sig, crc, csize, usize) ==
    (IF sig THEN <<80, 75, 7, 8>> ELSE <<>>) \o LE32(crc) \o LE32(csize) \o LE32(usize)

StoredOk == Entry(0, 0, <<97>>, <<>>, <<104, 105>>, <<7, 2, 2>>, <<>>, <<7, 2, 2>>, <<>>)
StoredMismatch == Entry(0, 0, <<98>>, <<>>, <<104, 105>>, <<7, 2, 5>>, <<>>, <<7, 2, 5>>, <<>>)
DeflateExact == Entry(8, 0, <<99>>, <<1, 2>>, <<2, 7>>, <<7, 2, 2>>, <<>>, <<7, 2, 2>>, <<>>)
DeflateLong == Entry(8, 0, <<100>>, <<>>, <<6, 7>>, <<7, 2, 2>>, <<>>, <<7, 2, 2>>, <<>>)
DeflateShort == Entry(8, 0, <<101>>, <<>>, <<1, 7>>, <<7, 2, 2>>, <<>>, <<7, 2, 2>>, <<>>)
DeflateCorrupt == Entry(8, 0, <<102>>, <<>>, <<2, 7, 1>>, <<7, 3, 2>>, <<>>, <<7, 3, 2>>, <<>>)
Bzip2 == Entry(12, 0, <<103>>, <<>>, <<104, 105>>, <<7, 2, 2>>, <<>>, <<7, 2, 2>>, <<>>)
StreamedSig == Entry(0, 8, <<104>>, <<>>, <<104, 105>>, <<0, 0, 0>>,
                     Descriptor(TRUE, 9, 2, 2), <<9, 2, 2>>, <<>>)
StreamedNoSig == Entry(0, 8, <<105>>, <<>>, <<104, 105>>, <<0, 0, 0>>,
                       Descriptor(FALSE, 9, 2, 2), <<9, 2, 2>>, <<>>)
StreamedEmpty == Entry(0, 8, <<106>>, <<>>, <<>>, <<0, 0, 0>>,
                       Descriptor(TRUE, 9, 0, 0), <<9, 0, 0>>, <<>>)
StreamedDeclared == Entry(0, 8, <<108>>, <<>>, <<104, 105>>, <<9, 2, 2>>,
                          Descriptor(TRUE, 9, 2, 2), <<9, 2, 2>>, <<>>)
\* The directory entry declares another compressed size than the local header.
StoredStale == Entry(0, 0, <<109>>, <<>>, <<104, 105>>, <<7, 2, 2>>, <<>>, <<7, 1, 2>>, <<>>)
\* The local header declares more compressed bytes than the buffer holds.
StoredOverrun == Entry(0, 0, <<110>>, <<>>, <<104, 105>>, <<7, 200, 2>>, <<>>, <<7, 2, 2>>, <<>>)
CommentDecoy == Entry(0, 0, <<107>>, <<>>, <<104, 105>>, <<7, 2, 2>>, <<>>, <<7, 2, 2>>,
                      END_CENTRAL_DIRECTORY_SIGNATURE)

EntryKinds == {StoredOk, StoredMismatch, DeflateExact, DeflateLong, DeflateShort,
               DeflateCorrupt, Bzip2, StreamedSig, StreamedNoSig, StreamedEmpty,
               StreamedDeclared, StoredStale, StoredOverrun, CommentDecoy}
\* The kinds archives of several entries are made of.
BasicKinds == {CommentDecoy, StreamedSig}

LocalRecord(e) ==
    Concat(<<LOCAL_FILE_SIGNATURE, LE16(20), LE16(e.flags), LE16(e.method), LE32(0),
             LE32(e.local[1]), LE32(e.local[2]), LE32(e.local[3]),
             LE16(Len(e.name)), LE16(Len(e.extra)), e.name, e.extra, e.data, e.desc>>)

CentralRecord(e, lho) ==
    Concat(<<CENTRAL_DIRECTORY_FILE_SIGNATURE, <<3, 20>>, LE16(20), LE16(e.flags),
             LE16(e.method), LE32(0),
             LE32(e.central[1]), LE32(e.central[2]), LE32(e.central[3]),
             LE16(Len(e.name)), LE16(Len(e.extra)), LE16(Len(e.comment)),
             LE16(0), LE16(0), LE32(0), LE32(lho), e.name, e.extra, e.comment>>)

EndRecord(total, size, offset, comment) ==
    Concat(<<END_CENTRAL_DIRECTORY_SIGNATURE, LE16(0), LE16(0), LE16(total), LE16(total),
             LE32(size), LE32(offset), LE16(Len(comment)), comment>>)

\* The damage done to an archive: bytes put before it, where the first
\* directory entry's local-header offset points ("swapped": the directory
\* lists the entries in the reverse of their order in the buffer), an error
\* of the declared entry count, the comment of the end record, bytes cut
\* off the end.
Damage(prefix, lho, total_delta, end_comment, cut) ==
    [prefix |-> prefix, lho |-> lho, total_delta |-> total_delta,
     end_comment |-> end_comment, cut |-> cut]

DecoyEndRecord == EndRecord(7, 3, 1, <<>>)
NoDamage == Damage(<<>>, "good", 0, <<>>, 0)
Damages ==
    {NoDamage,
     Damage(DecoyEndRecord, "good", 0, <<>>, 0),
     Damage(<<>>, "plus1", 0, <<>>, 0),
     Damage(<<>>, "last4", 0, <<>>, 0),
     Damage(<<>>, "last3", 0, <<>>, 0),
     Damage(<<>>, "last2", 0, <<>>, 0),
     Damage(<<>>, "second", 0, <<>>, 0),
     Damage(<<>>, "swapped", 0, <<>>, 0),
     Damage(<<>>, "beyond", 0, <<>>, 0),
     Damage(<<>>, "huge", 0, <<>>, 0),
     Damage(<<>>, "good", 1, <<>>, 0),
     Damage(<<>>, "good", 0, <<1, 2>>, 0),
     Damage(<<>>, "good", 0, END_CENTRAL_DIRECTORY_SIGNATURE \o <<0, 0, 0>>, 0),
     Damage(<<>>, "good", 0, DecoyEndRecord, 0),
     Damage(<<>>, "good", 0, <<>>, 1),
     Damage(<<>>, "good", 0, <<>>, 20),
     Damage(<<>>, "good", 0, <<>>, 40),
     Damage(<<>>, "good", 0, <<>>, 60)}

RECURSIVE LocalOffsets(_, _)
LocalOffsets(es, at) ==
    IF es = <<>> THEN <<>>
    ELSE <<at>> \o LocalOffsets(Tail(es), at + Len(LocalRecord(Head(es))))

Min(a, b) == IF a <= b THEN a ELSE b

Archive(es, d) ==
    LET locals == Concat([i \in 1..Len(es) |-> LocalRecord(es[i])])
        offsets == LocalOffsets(es, Len(d.prefix))
        cd_offset == Len(d.prefix) + Len(locals)
        cd_len == Len(Concat([i \in 1..Len(es) |-> CentralRecord(es[i], 0)]))
        whole == cd_offset + cd_len + 22 + Len(d.end_comment)
        len == whole - Min(d.cut, whole)
        lho(i) == IF d.lho = "swapped" THEN offsets[Len(es) + 1 - i]
                  ELSE IF i > 1 \/ d.lho = "good" THEN offsets[i]
                  ELSE CASE d.lho = "plus1" -> offsets[i] + 1
                         [] d.lho = "last4" -> len - 4
                         [] d.lho = "last3" -> len - 3
                         [] d.lho = "last2" -> len - 2
                         [] d.lho = "second" -> offsets[Len(es)]
                         [] d.lho = "beyond" -> len + 5
                         [] d.lho = "huge" -> 16777216 + 258
        cd == Concat([i \in 1..Len(es) |-> CentralRecord(es[i], lho(i))])
        end == EndRecord(Len(es) + d.total_delta, cd_len, cd_offset, d.end_comment)
    IN  SubSeq(d.prefix \o locals \o cd \o end, 1, len)

RECURSIVE SeqsUpTo(_, _)
SeqsUpTo(S, n) ==
    IF n = 0 THEN {<<>>}
    ELSE LET shorter == SeqsUpTo(S, n - 1)
         IN  shorter \cup {Append(s, x) : s \in {t \in shorter : Len(t) = n - 1}, x \in S}

\* Archives of one entry of any kind, and of up to MaxEntries basic entries.
ArchiveShapes == {<<k>> : k \in EntryKinds} \cup SeqsUpTo(BasicKinds, MaxEntries)

\* The damages done to archives of several entries.
BasicDamages ==
    {NoDamage,
     Damage(<<>>, "plus1", 0, <<>>, 0),
     Damage(<<>>, "second", 0, <<>>, 0),
     Damage(<<>>, "swapped", 0, <<>>, 0),
     Damage(<<>>, "good", 0, <<>>, 40),
     Damage(<<>>, "good", 0, <<>>, 60)}

\* The buffers an archive is opened on.
Buffers ==
    {Archive(es, d) : es \in {a \in ArchiveShapes : Len(a) <= 1}, d \in Damages}
    \cup {Archive(es, d) : es \in {a \in ArchiveShapes : Len(a) > 1}, d \in BasicDamages}

Sinks == {[data |-> <<>>, cap |-> 64], [data |-> <<9>>, cap |-> 3]}
Limits == {None, Some(2), Some(3), Some(100)}

(***************************************************************************)
(* The state machine: open, iterate, retrieve.                             *)
(***************************************************************************)
NoDirectory ==
    [files |-> <<>>,
     end |-> [disk_num |-> 0, disk_central_dir_num |-> 0, disk_entires |-> 0,
              total_entires |-> 0, central_dir_size |-> 0, central_dir_offset |-> 0]]

Init ==
    /\ buffer \in Buffers
    /\ cursor = 0
    /\ opened = "new"
    /\ open_err = <<>>
    /\ central_directory = NoDirectory
    /\ files_iter = <<>>
    /\ reads = <<>>
    /\ previous = <<>>
    /\ pc = "idle"
    /\ walk_headers = <<>>
    /\ file = <<>>
    /\ w \in Sinks
    /\ decoder_calls = 0
    /\ ret = <<>>
    /\ calls = 0
    /\ panicked = FALSE

IsPanic(r) == ~r.ok /\ r.err.kind = "Panic"

\* ZipArchive::from_buffer
from_buffer ==
    /\ opened = "new"
    /\ LET r == parse_central_directory(buffer, cursor) IN
       /\ cursor' = r.cursor
       /\ panicked' = IsPanic(r)
       /\ IF r.ok
          THEN /\ opened' = "ok"
               /\ central_directory' = r.val
               /\ open_err' = open_err
          ELSE /\ opened' = "err"
               /\ open_err' = <<r.err>>
               /\ central_directory' = central_directory
    /\ UNCHANGED <<buffer, files_iter, reads, previous, pc, walk_headers, file, w,
                   decoder_calls, ret, calls>>

\* ZipArchive::files: the iterator takes a clone of the directory's entries.
files ==
    /\ opened = "ok"
    /\ ~panicked
    /\ files_iter' = central_directory.files
    /\ previous' = reads
    /\ reads' = <<>>
    /\ UNCHANGED <<buffer, cursor, opened, open_err, central_directory, pc, walk_headers,
                   file, w, decoder_calls, ret, calls, panicked>>

\* Iterator::next of files() taking the headers from the back of the clone.
next_back ==
    /\ opened = "ok"
    /\ ~panicked
    /\ files_iter /= <<>>
    /\ LET r == read_file(buffer, cursor, files_iter[Len(files_iter)]) IN
       /\ cursor' = r.cursor
       /\ file' = <<r>>
       /\ reads' = Append(reads, [header |-> files_iter[Len(files_iter)],
                                  before |-> cursor, result |-> r])
       /\ panicked' = IsPanic(r)
    /\ files_iter' = SubSeq(files_iter, 1, Len(files_iter) - 1)
    /\ UNCHANGED <<buffer, opened, open_err, central_directory, previous, pc, walk_headers,
                   w, decoder_calls, ret, calls>>

\* Iterator::next of files(): read_file on the next header of the clone.
next ==
    /\ opened = "ok"
    /\ ~panicked
    /\ files_iter /= <<>>
    /\ LET r == read_file(buffer, cursor, Head(files_iter)) IN
       /\ cursor' = r.cursor
       /\ file' = <<r>>
       /\ reads' = Append(reads, [header |-> Head(files_iter), before |-> cursor,
                                  result |-> r])
       /\ panicked' = IsPanic(r)
    /\ files_iter' = Tail(files_iter)
    /\ UNCHANGED <<buffer, opened, open_err, central_directory, previous, pc, walk_headers,
                   w, decoder_calls, ret, calls>>

\* A retrieval call on the view the iterator yielded last.
HasView == opened = "ok" /\ ~panicked /\ file /= <<>> /\ file[1].ok /\ calls < MaxCalls

\* ret records the call: its operation and arguments, the view it was made
\* on, what it returned, the bytes it appended to the sink and the number of
\* decoders it built.
Retrieve(op, args, r) ==
    /\ ret' = <<[op |-> op, args |-> args, view |-> file[1].val, outcome |-> r.outcome,
                 result |-> r.result,
                 written |-> SubSeq(r.w.data, Len(w.data) + 1, Len(r.w.data)),
                 decoders |-> r.decoders]>>
    /\ w' = r.w
    /\ decoder_calls' = decoder_calls + r.decoders
    /\ calls' = calls + 1
    /\ panicked' = (r.outcome = "Panic")
    /\ UNCHANGED <<buffer, cursor, opened, open_err, central_directory, files_iter,
                   reads, previous, pc, walk_headers, file>>

WriteWithLimit ==
    /\ HasView
    /\ \E limit \in Limits :
          Retrieve("write_with_limit", <<limit>>, write_with_limit(file[1].val, w, limit))

Write ==
    /\ HasView
    /\ Retrieve("write", <<>>, write(file[1].val, w))

DecompressedContentsWithLimit ==
    /\ HasView
    /\ \E limit \in Limits :
          Retrieve("decompressed_contents_with_limit", <<limit>>,
                   decompressed_contents_with_limit(file[1].val, w, limit))

DecompressedContents ==
    /\ HasView
    /\ Retrieve("decompressed_contents", <<>>, decompressed_contents(file[1].val, w))

Next ==
    \/ from_buffer
    \/ files
    \/ next
    \/ WriteWithLimit
    \/ Write
    \/ DecompressedContentsWithLimit
    \/ DecompressedContents

Spec == Init /\ [][Next]_vars

(***************************************************************************)
(* The parser's operations on their own: the cursor is anywhere a seek of  *)
(* read_file can leave it.  The loop of                                    *)
(* read_central_directory_file_headers runs one iteration at a time.       *)
(***************************************************************************)
Signatures ==
    {LOCAL_FILE_SIGNATURE, CENTRAL_DIRECTORY_FILE_SIGNATURE, DATA_DESCRIPTOR_SIGNATURE,
     END_CENTRAL_DIRECTORY_SIGNATURE}

ParserBuffers ==
    {Archive(<<CommentDecoy>>, NoDamage),
     Archive(<<CommentDecoy, StreamedSig>>, NoDamage),
     Archive(<<CommentDecoy>>, Damage(<<>>, "good", 0, <<>>, 40)),
     CENTRAL_DIRECTORY_FILE_SIGNATURE \o CENTRAL_DIRECTORY_FILE_SIGNATURE,
     <<80, 75, 1>>,
     <<>>}

ParserInit ==
    /\ buffer \in ParserBuffers
    /\ cursor \in 0..(Len(buffer) + MaxRange)
    /\ opened = "new"
    /\ open_err = <<>>
    /\ central_directory = NoDirectory
    /\ files_iter = <<>>
    /\ reads = <<>>
    /\ previous = <<>>
    /\ pc = "idle"
    /\ walk_headers = <<>>
    /\ file = <<>>
    /\ w = [data |-> <<>>, cap |-> 0]
    /\ decoder_calls = 0
    /\ ret = <<>>
    /\ calls = 0
    /\ panicked = FALSE

\* ret records a parser call: the operation, its arguments, the cursor it
\* found and what it returned: Ok or the kind of the error, and the value
\* of an Ok as the bool, the bytes or the headers it is.
Parsed(op, args, r, matched, bytes, file_headers) ==
    /\ ret' = <<[op |-> op, args |-> args, before |-> cursor, ok |-> r.ok,
                 err |-> IF r.ok THEN "" ELSE r.err.kind,
                 matched |-> matched, bytes |-> bytes, headers |-> file_headers]>>
    /\ cursor' = r.cursor
    /\ panicked' = IsPanic(r)
    /\ UNCHANGED <<buffer, opened, open_err, central_directory, files_iter, reads,
                   previous, file, w, decoder_calls, calls>>

ReadSignatureReturns(signature, r) ==
    Parsed("read_signature", signature, r, r.ok /\ r.val, <<>>, <<>>)

\* Parser::read_signature
ReadSignature ==
    /\ pc = "idle"
    /\ ~panicked
    /\ \E signature \in Signatures :
          ReadSignatureReturns(signature, read_signature(buffer, cursor, signature))
    /\ UNCHANGED <<pc, walk_headers>>

GetByteRangeReturns(len, r) ==
    Parsed("get_byte_range", <<len>>, r, FALSE, IF r.ok THEN r.val ELSE <<>>, <<>>)

\* Parser::get_byte_range
GetByteRange ==
    /\ pc = "idle"
    /\ ~panicked
    /\ cursor <= Len(buffer) + MaxRange
    /\ \E len \in 0..MaxRange :
          GetByteRangeReturns(len, get_byte_range(buffer, cursor, len))
    /\ UNCHANGED <<pc, walk_headers>>

\* The function returns r: the headers, or the error of the loop body.
WalkEnds(r) ==
    /\ Parsed("read_central_directory_file_headers", <<>>, r, FALSE, <<>>,
              IF r.ok THEN r.val ELSE <<>>)
    /\ pc' = "idle"
    /\ walk_headers' = walk_headers

\* The loop body (parse.rs:163-205), h being what its reads gave.
WalkBody(h) ==
    IF ~h.ok THEN WalkEnds(h)
    ELSE /\ walk_headers' = Append(walk_headers, h.val)
         /\ cursor' = h.cursor
         /\ UNCHANGED <<buffer, opened, open_err, central_directory, files_iter,
                        reads, previous, pc, file, w, decoder_calls, ret, calls,
                        panicked>>

\* The loop condition, s being what read_signature gave.
WalkCondition(s) ==
    IF ~s.ok THEN WalkEnds(s)
    ELSE IF ~s.val THEN WalkEnds(Ok(walk_headers, s.cursor))
    ELSE WalkBody(read_central_directory_file_header(buffer, s.cursor))

\* The loop condition taken with expect_signature: a mismatch is an error.
WalkExpecting(s) ==
    IF ~s.ok THEN WalkEnds(s)
    ELSE WalkBody(read_central_directory_file_header(buffer, s.cursor))

\* One iteration of the loop with expect_signature for read_signature.
WhileExpectSignature ==
    /\ pc = "walk"
    /\ WalkExpecting(expect_signature(buffer, cursor, CENTRAL_DIRECTORY_FILE_SIGNATURE))

\* One iteration of `while self.read_signature(..)`: the condition, then the
\* return of the headers or the loop body.
WhileReadSignature ==
    /\ pc = "walk"
    /\ WalkCondition(read_signature(buffer, cursor, CENTRAL_DIRECTORY_FILE_SIGNATURE))

ParserNext ==
    \/ ReadSignature
    \/ GetByteRange

ParserSpec == ParserInit /\ [][ParserNext]_vars

\* read_central_directory_file_headers(offset) on entry to its loop: the
\* cursor is at offset, any offset up to past the end, and headers is empty.
WalkInit ==
    /\ buffer \in ParserBuffers
    /\ cursor \in 0..(Len(buffer) + MaxRange)
    /\ opened = "new"
    /\ open_err = <<>>
    /\ central_directory = NoDirectory
    /\ files_iter = <<>>
    /\ reads = <<>>
    /\ previous = <<>>
    /\ pc = "walk"
    /\ walk_headers = <<>>
    /\ file = <<>>
    /\ w = [data |-> <<>>, cap |-> 0]
    /\ decoder_calls = 0
    /\ ret = <<>>
    /\ calls = 0
    /\ panicked = FALSE

WalkSpec == WalkInit /\ [][WhileReadSignature]_vars

(***************************************************************************)
(* Properties.                                                             *)
(***************************************************************************)
WithLimitOps == {"write_with_limit", "decompressed_contents_with_limit"}
StreamedOps == {"write_with_limit", "write"}
BufferedOps == {"decompressed_contents_with_limit", "decompressed_contents"}

\* The last retrieval call, when one was made.
Called == ret /= <<>>
Call == ret[1]
Declared == Call.view.metadata.uncompressed_size
MethodOf(call) == call.view.metadata.compression_method

\* The call ran with a ceiling the declared size is under (the default
\* ceiling of 8 GB is above every 32-bit size).
UnderCeiling ==
    \/ Call.op \notin WithLimitOps
    \/ Call.args[1].some /\ Declared < Call.args[1].v

\* Fixed-width fields read straight off the buffer at an offset, by the
\* record layouts of the format.
U16At(buf, p) == buf[p + 1] + 256 * buf[p + 2]
U32At(buf, p) == buf[p + 1] + 256 * buf[p + 2] + 65536 * buf[p + 3] + 16777216 * buf[p + 4]
BytesAt(buf, p, n) == [i \in 1..n |-> buf[p + i]]
HasSignatureAt(buf, p, sig) == p + 4 <= Len(buf) /\ BytesAt(buf, p, 4) = sig

EndSignatureOffsets == Occurrences(buffer, END_CENTRAL_DIRECTORY_SIGNATURE)
Greatest(S) == CHOOSE x \in S : \A y \in S : y <= x
Least(S) == CHOOSE x \in S : \A y \in S : x <= y
EndFieldsAt(buf, o) ==
    [disk_num |-> U16At(buf, o + 4),
     disk_central_dir_num |-> U16At(buf, o + 6),
     disk_entires |-> U16At(buf, o + 8),
     total_entires |-> U16At(buf, o + 10),
     central_dir_size |-> U32At(buf, o + 12),
     central_dir_offset |-> U32At(buf, o + 16)]

\* C1: a retrieval call with ceiling Some(L) on a view whose declared
\* uncompressed size is at least L returns FileTooLarge carrying the declared
\* size, builds no decoder and leaves the sink as it was.
C1_TooLargeIsRejectedFirst ==
    [][(/\ calls' = calls + 1
        /\ ret'[1].op \in WithLimitOps
        /\ ret'[1].args[1].some
        /\ ret'[1].view.metadata.uncompressed_size >= ret'[1].args[1].v)
       => (/\ ret'[1].outcome = "Err"
           /\ ret'[1].result.err = FileTooLarge(ret'[1].view.metadata.uncompressed_size)
           /\ decoder_calls' = decoder_calls
           /\ w' = w)]_vars

\* C1 witness: a deflate view of declared size 2 was refused under the
\* ceiling Some(2), with data already in the sink.
C1_Witness ==
    /\ Called
    /\ Call.op \in WithLimitOps
    /\ Call.args = <<Some(2)>>
    /\ Declared = 2
    /\ MethodOf(Call) = 8
    /\ Call.outcome = "Err"
    /\ w.data /= <<>>

\* C2: with the limit None a retrieval call never returns FileTooLarge.
C2_NoneIsNoLimit ==
    (Called /\ Call.op \in WithLimitOps /\ ~Call.args[1].some)
    => ~(Call.outcome = "Err" /\ Call.result.err.kind = "FileTooLarge")

\* C3: from_buffer uses the end-signature occurrence of greatest offset that
\* parses as an end record, skipping occurrences that do not parse, and fails
\* with MissingCentralDirectory when none parses.
C3_FirstParsingOccurrenceIsUsed ==
    opened /= "new" =>
        LET Parses(o) == read_end_central_directory(buffer, o).ok
            parsing == SelectSeq(rfind_iter(buffer, END_CENTRAL_DIRECTORY_SIGNATURE), Parses)
        IN  IF parsing = <<>>
            THEN opened = "err" /\ open_err = <<MissingCentralDirectory>>
            ELSE LET end == read_end_central_directory(buffer, Head(parsing)).val
                     walk == read_central_directory_file_headers(buffer, end.central_dir_offset)
                 IN  IF walk.ok
                     THEN opened = "ok" /\ central_directory = [files |-> walk.val, end |-> end]
                     ELSE opened = "err" /\ open_err = <<walk.err>>

\* C4: when the archive opens on a buffer that holds the end signature more
\* than once, the occurrence of greatest offset is followed by a whole end
\* record and the End Record holds its fields.
C4_EndRecordIsTheLastOccurrence ==
    (opened = "ok" /\ Cardinality(EndSignatureOffsets) >= 2)
    => /\ Greatest(EndSignatureOffsets) + 22 <= Len(buffer)
       /\ central_directory.end = EndFieldsAt(buffer, Greatest(EndSignatureOffsets))

\* C4 witness: an archive with entries opened on a buffer with an earlier
\* occurrence whose fields differ from the End Record.
C4_Witness ==
    /\ opened = "ok"
    /\ Cardinality(EndSignatureOffsets) >= 2
    /\ Least(EndSignatureOffsets) + 20 <= Len(buffer)
    /\ EndFieldsAt(buffer, Least(EndSignatureOffsets)) /= central_directory.end
    /\ central_directory.files /= <<>>

\* n central-directory entry records lie back to back from p and end at q.
RECURSIVE EntryRecordsTile(_, _, _, _)
EntryRecordsTile(buf, p, q, n) ==
    IF n = 0 THEN p = q
    ELSE /\ p + 46 <= q
         /\ BytesAt(buf, p, 4) = CENTRAL_DIRECTORY_FILE_SIGNATURE
         /\ EntryRecordsTile(buf,
                p + 46 + U16At(buf, p + 28) + U16At(buf, p + 30) + U16At(buf, p + 32),
                q, n - 1)

\* The buffer ends in a whole end record, its last signature occurrence,
\* and the directory it names is exactly total_entries entry records
\* followed by that end record.
ValidArchive ==
    /\ EndSignatureOffsets /= {}
    /\ LET o == Greatest(EndSignatureOffsets) IN
       /\ o + 22 <= Len(buffer)
       /\ o + 22 + U16At(buffer, o + 20) = Len(buffer)
       /\ EndFieldsAt(buffer, o).central_dir_offset <= o
       /\ EntryRecordsTile(buffer, EndFieldsAt(buffer, o).central_dir_offset, o,
                           EndFieldsAt(buffer, o).total_entires)

\* C5: a valid archive opens, and its End Record's total_entries is the
\* number of entries decoded.
C5_TotalEntriesIsEntryCount ==
    (opened /= "new" /\ ValidArchive)
    => (opened = "ok"
        /\ central_directory.end.total_entires = Len(central_directory.files))

\* C5 witness: a valid archive of two entries, one with a comment, is open.
C5_Witness ==
    /\ opened = "ok"
    /\ ValidArchive
    /\ Len(central_directory.files) = 2
    /\ \E i \in 1..2 : central_directory.files[i].comment /= <<>>

\* The local header a directory entry addresses, read by the layout of the
\* format: offsets of its fields from the start of the record.
LocalFlagsAt(buf, lho) == U16At(buf, lho + 6)
LocalSizesAt(buf, lho) == <<U32At(buf, lho + 14), U32At(buf, lho + 18), U32At(buf, lho + 22)>>
LocalDataAt(buf, lho) == lho + 30 + U16At(buf, lho + 26) + U16At(buf, lho + 28)

\* The data descriptor that follows the data of the entry of header h: the
\* data is as long as the directory entry says.
DescriptorOffset(buf, h) ==
    LocalDataAt(buf, h.local_header_offset) + h.metadata.compressed_size
DescriptorFieldsOffset(buf, h) ==
    IF HasSignatureAt(buf, DescriptorOffset(buf, h), <<80, 75, 7, 8>>)
    THEN DescriptorOffset(buf, h) + 4
    ELSE DescriptorOffset(buf, h)
DescriptorAt(buf, h) ==
    <<U32At(buf, DescriptorFieldsOffset(buf, h)),
      U32At(buf, DescriptorFieldsOffset(buf, h) + 4),
      U32At(buf, DescriptorFieldsOffset(buf, h) + 8)>>

\* The header addresses a whole local record with zero crc and sizes, bit 3
\* set and a data descriptor after its data.
IsStreamedRecord(buf, h) ==
    /\ HasSignatureAt(buf, h.local_header_offset, LOCAL_FILE_SIGNATURE)
    /\ h.local_header_offset + 30 <= Len(buf)
    /\ has_data_descriptor(LocalFlagsAt(buf, h.local_header_offset))
    /\ LocalSizesAt(buf, h.local_header_offset) = <<0, 0, 0>>
    /\ DescriptorOffset(buf, h) + 12 <= Len(buf)
    /\ DescriptorFieldsOffset(buf, h) + 12 <= Len(buf)

\* C6: reading an entry whose local header has zero crc and sizes and bit 3
\* set yields a view whose metadata holds the crc and sizes of the entry's
\* data descriptor, with or without the descriptor's signature.
C6_DescriptorValuesAreReported ==
    \A i \in 1..Len(reads) :
        IsStreamedRecord(buffer, reads[i].header)
        => /\ reads[i].result.ok
           /\ <<reads[i].result.val.metadata.crc,
                reads[i].result.val.metadata.compressed_size,
                reads[i].result.val.metadata.uncompressed_size>>
              = DescriptorAt(buffer, reads[i].header)

\* C7: a successful retrieval of a stored view yields exactly the compressed
\* bytes, and the view's uncompressed_size equals its compressed_size.
C7_StoredRoundTrip ==
    (Called /\ MethodOf(Call) = 0 /\ Call.outcome = "Ok")
    => /\ Call.op \in BufferedOps => Call.result.val = Call.view.contents
       /\ Call.op \in StreamedOps => Call.written = Call.view.contents
       /\ Call.view.metadata.uncompressed_size = Call.view.metadata.compressed_size

\* C8: a streamed retrieval returns Ok only when the bytes it wrote to the
\* sink number exactly the declared uncompressed size.
C8_StreamedCountIsVerified ==
    (Called /\ Call.op \in StreamedOps /\ Call.outcome = "Ok")
    => Len(Call.written) = Declared

\* C9: a retrieval of a view whose method is neither stored nor deflate and
\* whose declared size is under the ceiling returns an error value: it does
\* not panic and does not succeed.
C9_UnsupportedMethodIsAnError ==
    (Called /\ MethodOf(Call) \notin {0, 8} /\ UnderCeiling)
    => Call.outcome = "Err"

\* The header's local_header_offset is a position of the buffer that begins
\* with the local-file-header signature.
AddressesLocalHeader(buf, h) ==
    HasSignatureAt(buf, h.local_header_offset, LOCAL_FILE_SIGNATURE)

\* C10 as claimed: reading an entry whose offset does not address the
\* local-file-header signature fails with MalformedSignature, whose expected
\* bytes are that signature, wherever the offset lies.
C10_BadOffsetIsMalformedSignature ==
    \A i \in 1..Len(reads) :
        ~AddressesLocalHeader(buffer, reads[i].header)
        => /\ ~reads[i].result.ok
           /\ reads[i].result.err.kind = "MalformedSignature"
           /\ reads[i].result.err.expected = LOCAL_FILE_SIGNATURE

\* C10 as amended: such a read yields no view; it fails with
\* MalformedSignature naming the four bytes found at the offset and the
\* expected signature when the buffer holds four bytes there, and with the
\* Generic error "expected 4 byte signature" when it holds fewer.
C10_BadOffsetIsAnError ==
    \A i \in 1..Len(reads) :
        ~AddressesLocalHeader(buffer, reads[i].header)
        => LET lho == reads[i].header.local_header_offset IN
           /\ ~reads[i].result.ok
           /\ reads[i].result.err =
                 IF lho + 4 <= Len(buffer)
                 THEN MalformedSignature(BytesAt(buffer, lho, 4), LOCAL_FILE_SIGNATURE)
                 ELSE Generic("expected 4 byte signature")

\* C10 witness: an entry whose offset leaves exactly four bytes, not the
\* signature, was read and refused.
C10_Witness ==
    \E i \in 1..Len(reads) :
        /\ reads[i].header.local_header_offset + 4 = Len(buffer)
        /\ ~AddressesLocalHeader(buffer, reads[i].header)
        /\ ~reads[i].result.ok

\* buf is a prefix of the archive of the entries es that ends inside its
\* central directory: after the directory's first byte, before its end record.
IsTruncationOf(buf, es) ==
    /\ Len(Concat([i \in 1..Len(es) |-> LocalRecord(es[i])])) < Len(buf)
    /\ Len(buf) < Len(Archive(es, NoDamage)) - 22
    /\ buf = SubSeq(Archive(es, NoDamage), 1, Len(buf))

TruncatedMidDirectory(buf) ==
    /\ ~(Len(buf) >= 22
         /\ HasSignatureAt(buf, Len(buf) - 22, END_CENTRAL_DIRECTORY_SIGNATURE))
    /\ \E es \in ArchiveShapes : IsTruncationOf(buf, es)

\* C11 as claimed: opening a buffer truncated mid-central-directory fails
\* with UnexpectedEof: no other error, no success, no panic.
C11_TruncatedOpenIsUnexpectedEof ==
    (opened /= "new" /\ TruncatedMidDirectory(buffer))
    => (opened = "err" /\ open_err = <<UnexpectedEof>> /\ ~panicked)

\* C11 as amended: opening such a buffer never panics.  When the buffer
\* holds no end signature it fails with MissingCentralDirectory.  When it
\* still holds one (in an entry comment), it fails with UnexpectedEof if
\* fewer than 18 bytes follow the last occurrence, and otherwise either
\* fails with UnexpectedEof or opens with the End Record read at that
\* occurrence.
C11_TruncatedOpenOutcome ==
    (opened /= "new" /\ TruncatedMidDirectory(buffer))
    => /\ ~panicked
       /\ IF EndSignatureOffsets = {}
          THEN opened = "err" /\ open_err = <<MissingCentralDirectory>>
          ELSE IF Greatest(EndSignatureOffsets) + 22 > Len(buffer)
          THEN opened = "err" /\ open_err = <<UnexpectedEof>>
          ELSE \/ opened = "err" /\ open_err = <<UnexpectedEof>>
               \/ /\ opened = "ok"
                  /\ central_directory.end
                       = EndFieldsAt(buffer, Greatest(EndSignatureOffsets))

\* C11 witness: a buffer cut inside the directory, holding no end signature,
\* was refused with MissingCentralDirectory.
C11_Witness ==
    /\ opened = "err"
    /\ open_err = <<MissingCentralDirectory>>
    /\ TruncatedMidDirectory(buffer)
    /\ EndSignatureOffsets = {}

\* C12: from_buffer and every read of an entry end in Ok or in a value of
\* ZipParseError, never in a panic of an out-of-bounds index, whatever the
\* buffer and wherever the offsets point; and the cursor they leave is
\* below 2^34, far inside the 64-bit word.
C12_ParserNeverPanics ==
    /\ opened = "err" => open_err[1].kind \in ZipParseErrorKinds
    /\ \A i \in 1..Len(reads) :
          reads[i].result.ok \/ reads[i].result.err.kind \in ZipParseErrorKinds
    /\ (cursor \div 65536) \div 65536 < 4

\* C12 witness: an entry was read whose offset leaves three bytes in the
\* buffer, one fewer than a signature, and the read returned an error.
C12_Witness ==
    \E i \in 1..Len(reads) :
        /\ reads[i].header.local_header_offset + 3 = Len(buffer)
        /\ ~reads[i].result.ok
        /\ reads[i].result.err.kind \in ZipParseErrorKinds

\* The items yielded by this iterator of files() and by the one before it.
AllReads == {reads[i] : i \in 1..Len(reads)} \cup {previous[i] : i \in 1..Len(previous)}

\* C13: the result of reading an entry depends on the buffer and the entry's
\* local_header_offset only: two reads at the same offset give the same
\* result whatever the cursor was and whatever was read before, and a second
\* iteration of files() yields the results of the first, item by item.
C13_ReadsAreIndependent ==
    /\ \A a, b \in AllReads :
          a.header.local_header_offset = b.header.local_header_offset
          => a.result = b.result
    /\ \A i \in 1..Min(Len(reads), Len(previous)) :
          /\ reads[i].header = previous[i].header
          /\ reads[i].result = previous[i].result

\* C13 witness: the iterator before this one ended on a failed read, and
\* this one has read an entry successfully from another cursor than the
\* first time.
C13_Witness ==
    /\ previous /= <<>>
    /\ ~previous[Len(previous)].result.ok
    /\ \E i \in 1..Min(Len(reads), Len(previous)) :
          /\ reads[i].result.ok
          /\ reads[i].before /= previous[i].before

\* The result r is that of a read at offset lho: a view carries the name
\* found in the local record there, a signature error the four bytes found
\* there.
IsReadAt(r, lho) ==
    IF r.ok
    THEN /\ HasSignatureAt(buffer, lho, LOCAL_FILE_SIGNATURE)
         /\ r.val.metadata.name = BytesAt(buffer, lho + 30, U16At(buffer, lho + 26))
    ELSE /\ r.err.kind = "MalformedSignature" => r.err.found = BytesAt(buffer, lho, 4)
         /\ r.err.kind = "Generic" => lho + 4 > Len(buffer)

\* The items yielded so far are for the first entries of the directory, in
\* directory order, and the iterator holds the remaining entries.
YieldedInDirectoryOrder ==
    \/ reads = <<>> /\ files_iter = <<>>
    \/ /\ [i \in 1..Len(reads) |-> reads[i].header] \o files_iter
          = central_directory.files
       /\ \A i \in 1..Len(reads) :
             IsReadAt(reads[i].result, central_directory.files[i].local_header_offset)

\* C14: files() yields one result per directory entry, in directory order,
\* the i-th being the read at the i-th entry's local_header_offset, and no
\* step after the open changes central_directory.
C14_FilesYieldsDirectoryOrder ==
    /\ []YieldedInDirectoryOrder
    /\ [][opened = "ok" => central_directory' = central_directory]_vars

\* C14 witness: an iteration is complete over a directory that lists two
\* entries in the reverse of their order in the buffer.
C14_Witness ==
    /\ Len(central_directory.files) = 2
    /\ Len(reads) = 2
    /\ files_iter = <<>>
    /\ central_directory.files[1].local_header_offset
         > central_directory.files[2].local_header_offset
    /\ reads[1].result.ok

\* Where C15 places the data descriptor of the local record at lho: after
\* the compressed size the local header declares.
ClaimedDescriptorOffset(buf, lho) == LocalDataAt(buf, lho) + LocalSizesAt(buf, lho)[2]
ClaimedFieldsOffset(buf, lho) ==
    IF HasSignatureAt(buf, ClaimedDescriptorOffset(buf, lho), <<80, 75, 7, 8>>)
    THEN ClaimedDescriptorOffset(buf, lho) + 4
    ELSE ClaimedDescriptorOffset(buf, lho)
ClaimedDescriptor(buf, lho) ==
    <<U32At(buf, ClaimedFieldsOffset(buf, lho)),
      U32At(buf, ClaimedFieldsOffset(buf, lho) + 4),
      U32At(buf, ClaimedFieldsOffset(buf, lho) + 8)>>

\* lho addresses a whole local header with bit 3 set, and the buffer holds a
\* whole descriptor at the place C15 names.
HasClaimedDescriptor(buf, lho) ==
    /\ HasSignatureAt(buf, lho, LOCAL_FILE_SIGNATURE)
    /\ lho + 30 <= Len(buf)
    /\ has_data_descriptor(LocalFlagsAt(buf, lho))
    /\ ClaimedFieldsOffset(buf, lho) + 12 <= Len(buf)

\* C15: for a local header with bit 3 set, the crc and sizes of the view are
\* read from the descriptor that follows the compressed size declared in the
\* local header, and the view's contents start right after the extra field.
C15_DescriptorFollowsTheData ==
    \A i \in 1..Len(reads) :
        HasClaimedDescriptor(buffer, reads[i].header.local_header_offset)
        => LET lho == reads[i].header.local_header_offset
               d == ClaimedDescriptor(buffer, lho)
           IN  IF LocalDataAt(buffer, lho) + d[2] <= Len(buffer)
               THEN /\ reads[i].result.ok
                    /\ <<reads[i].result.val.metadata.crc,
                         reads[i].result.val.metadata.compressed_size,
                         reads[i].result.val.metadata.uncompressed_size>> = d
                    /\ reads[i].result.val.contents
                         = BytesAt(buffer, LocalDataAt(buffer, lho), d[2])
               ELSE ~reads[i].result.ok

\* A sink with room for whatever a view of the model decompresses to.
AmpleSink == [data |-> <<>>, cap |-> 64]

Agree(buffered, streamed) ==
    /\ (buffered.outcome = "Ok") = (streamed.outcome = "Ok")
    /\ buffered.outcome = "Ok" => streamed.w.data = buffered.result.val

\* C19: on the same view with the same limit the buffered and the streamed
\* retrieval both return Ok or both do not, and when they do the bytes
\* written to the (empty, ample) sink are the bytes the buffered call
\* returns.  The call made is compared with the other mode on its view.
C19_BufferedAndStreamedAgree ==
    (Called /\ Call.op \in WithLimitOps)
    => IF Call.op = "decompressed_contents_with_limit"
       THEN Agree([outcome |-> Call.outcome, result |-> Call.result],
                  write_with_limit(Call.view, AmpleSink, Call.args[1]))
       ELSE (Len(Call.written) = Len(w.data) /\ Len(w.data) < w.cap)
            => Agree(decompressed_contents_with_limit(Call.view, w, Call.args[1]),
                     [outcome |-> Call.outcome, w |-> w])

\* The local record at lho begins with its signature and its flags have
\* bit 3 clear.
IsPlainRecord(buf, lho) ==
    /\ HasSignatureAt(buf, lho, LOCAL_FILE_SIGNATURE)
    /\ lho + 8 <= Len(buf)
    /\ ~has_data_descriptor(LocalFlagsAt(buf, lho))

\* The compressed size the local header at lho declares, and whether the
\* header and the data it declares lie inside the buffer.
LocalCompressedSizeAt(buf, lho) == LocalSizesAt(buf, lho)[2]
LocalRangeIsInside(buf, lho) ==
    /\ lho + 30 <= Len(buf)
    /\ LocalDataAt(buf, lho) + LocalCompressedSizeAt(buf, lho) <= Len(buf)

\* C20: a read at a local record whose flags have bit 3 clear succeeds only
\* when the data range the local header declares lies inside the buffer,
\* and then the view's contents are the bytes of that range, as many as
\* metadata.compressed_size, which is the local header's value; when the
\* range does not lie inside the buffer the read fails with UnexpectedEof.
C20_ContentsAreTheLocalRange ==
    \A r \in AllReads :
        IsPlainRecord(buffer, r.header.local_header_offset)
        => IF LocalRangeIsInside(buffer, r.header.local_header_offset)
           THEN r.result.ok
                => /\ r.result.val.contents
                      = BytesAt(buffer, LocalDataAt(buffer, r.header.local_header_offset),
                                LocalCompressedSizeAt(buffer, r.header.local_header_offset))
                   /\ Len(r.result.val.contents) = r.result.val.metadata.compressed_size
                   /\ r.result.val.metadata.compressed_size
                      = LocalCompressedSizeAt(buffer, r.header.local_header_offset)
           ELSE /\ ~r.result.ok
                /\ r.result.err.kind = "UnexpectedEof"

\* C20 witness: a read succeeded with two bytes of contents where the
\* directory entry declares another compressed size than the local header
\* whose flags have bit 3 clear.
C20_Witness ==
    \E i \in 1..Len(reads) :
        /\ IsPlainRecord(buffer, reads[i].header.local_header_offset)
        /\ reads[i].result.ok
        /\ Len(reads[i].result.val.contents) = 2
        /\ reads[i].header.metadata.compressed_size
             /= reads[i].result.val.metadata.compressed_size

\* A read has failed at a record with bit 3 clear whose declared range ends
\* past the end of the buffer.
C20_OverrunReached ==
    \E i \in 1..Len(reads) :
        /\ IsPlainRecord(buffer, reads[i].header.local_header_offset)
        /\ ~LocalRangeIsInside(buffer, reads[i].header.local_header_offset)
        /\ ~reads[i].result.ok

(***************************************************************************)
(* Properties of the parser's operations, under ParserSpec and WalkSpec.   *)
(***************************************************************************)
\* The step is a call of the parser operation op.
IsCallOf(op) == ret' /= <<>> /\ ret'[1].op = op

\* C16: read_signature(expected) returns true and advances the cursor by 4
\* when the four bytes at the cursor are expected; otherwise (other bytes,
\* fewer than four left, cursor at or past the end) it returns false and
\* leaves the cursor where it was.  It never changes the buffer.
C16_ReadSignatureFrame ==
    [][IsCallOf("read_signature")
       => /\ buffer' = buffer
          /\ ret'[1].ok
          /\ IF HasSignatureAt(buffer, cursor, ret'[1].args)
             THEN ret'[1].matched /\ cursor' = cursor + 4
             ELSE ~ret'[1].matched /\ cursor' = cursor]_vars

\* C16 witness: read_signature was called with fewer than four bytes left
\* that begin like the signature asked for, and refused them.
C16_Witness ==
    /\ ret /= <<>>
    /\ ret[1].op = "read_signature"
    /\ ret[1].before < Len(buffer)
    /\ ret[1].before + 4 > Len(buffer)
    /\ buffer[ret[1].before + 1] = ret[1].args[1]
    /\ ~ret[1].matched

\* C17: get_byte_range(len) at cursor c returns buffer[c .. c+len] and
\* advances the cursor by len when c + len is within the buffer, and fails
\* with UnexpectedEof when it is not, also when c is past the end.
C17_GetByteRange ==
    [][IsCallOf("get_byte_range")
       => /\ buffer' = buffer
          /\ IF cursor + ret'[1].args[1] <= Len(buffer)
             THEN /\ ret'[1].ok
                  /\ ret'[1].bytes = BytesAt(buffer, cursor, ret'[1].args[1])
                  /\ cursor' = cursor + ret'[1].args[1]
             ELSE /\ ~ret'[1].ok
                  /\ ret'[1].err = "UnexpectedEof"]_vars

\* C17 witness: a range of length 0 was asked for with the cursor past the
\* end of the buffer, and refused.
C17_Witness ==
    /\ ret /= <<>>
    /\ ret[1].op = "get_byte_range"
    /\ ret[1].args = <<0>>
    /\ ret[1].before > Len(buffer)
    /\ ~ret[1].ok

\* C18: the walk of the central directory terminates: an iteration whose
\* signature matches moves the cursor forward, by a whole entry record when
\* the loop goes on, and the loop goes on only with the cursor inside the
\* buffer; at the first position without the entry signature (other bytes,
\* fewer than four left, past the end) the walk returns Ok with the entries
\* decoded so far and leaves the cursor there.
C18_WalkTerminates ==
    /\ [][(pc = "walk" /\ HasSignatureAt(buffer, cursor, CENTRAL_DIRECTORY_FILE_SIGNATURE))
          => /\ cursor' > cursor
             /\ pc' = "walk" => (cursor' >= cursor + 46 /\ cursor' <= Len(buffer))]_vars
    /\ [][(pc = "walk" /\ ~HasSignatureAt(buffer, cursor, CENTRAL_DIRECTORY_FILE_SIGNATURE))
          => /\ pc' = "idle"
             /\ ret'[1].ok
             /\ ret'[1].headers = walk_headers
             /\ cursor' = cursor]_vars

\* C18 witness: a walk returned two entries.
C18_Witness ==
    /\ pc = "idle"
    /\ ret /= <<>>
    /\ ret[1].op = "read_central_directory_file_headers"
    /\ ret[1].ok
    /\ Len(ret[1].headers) = 2

====
